---- MODULE Spec2Model ----
(***************************************************************************)
(* The person ledger of entry-services (src/api/index.js): the Express     *)
(* handlers create-person, add-entry, details and person-delete over a     *)
(* Firestore store of Person documents with a details subcollection.       *)
(* Every await of a store operation is one atomic step of a request, so    *)
(* requests interleave between their store operations.                     *)
(***************************************************************************)
EXTENDS Integers, Sequences, FiniteSets, TLC

(* ---------------------------- bounds ----------------------------------- *)
\* requests issued in one behaviour
MaxReq == 3
\* requests in flight at the same time (connection slots)
MaxInFlight == 2
\* Persons created in one behaviour
MaxPersons == 2

Slots == 1..MaxInFlight
PersonIds == 1..MaxPersons
DetailIds == 1..MaxReq

(* ------------------------- JavaScript values --------------------------- *)
N(n) == [t |-> "num", n |-> n, s |-> ""]
S(s) == [t |-> "str", n |-> 0, s |-> s]
Undef == [t |-> "undef", n |-> 0, s |-> ""]

\* String(v) as the + operator applies it to a non-string operand
JsToString(v) == IF v.t = "num" THEN ToString(v.n)
                 ELSE IF v.t = "str" THEN v.s ELSE "undefined"

\* a + b: numeric addition of two numbers, string concatenation otherwise
JsAddConcatOnly(a, b) == S(JsToString(a) \o JsToString(b))
JsAdd(a, b) == IF a.t = "num" /\ b.t = "num" THEN N(a.n + b.n)
               ELSE S(JsToString(a) \o JsToString(b))

\* !v for the values that occur (undefined, 0 and "" are falsy)
JsFalsy(v) == \/ v.t = "undef"
              \/ v.t = "num" /\ v.n = 0
              \/ v.t = "str" /\ v.s = ""

\* v || 0
JsOrZero(v) == IF JsFalsy(v) THEN N(0) ELSE v

\* quantity_entries.reduce((acc, val) => acc + val, 0)
RECURSIVE ReduceFrom(_, _)
ReduceFrom(acc, arr) ==
  IF arr = <<>> THEN acc ELSE ReduceFrom(JsAdd(acc, Head(arr)), Tail(arr))
ReduceSum(arr) == ReduceFrom(N(0), arr)

(* ------------------------------ dates ---------------------------------- *)
HoursPerDay == 24
NaN == -1

\* new Date(s): the instant in local hours since the epoch, NaN when s does
\* not parse
DateParse(s) == CASE s = "D1T00" -> 24
                  [] s = "D1T09" -> 33
                  [] s = "D2T00" -> 48
                  [] OTHER -> NaN

\* normalizeDate: setHours(0, 0, 0, 0) on the parsed instant
normalizeDate(s) ==
  IF DateParse(s) = NaN THEN NaN
  ELSE DateParse(s) - (DateParse(s) % HoursPerDay)

(* --------------------------- request inputs ---------------------------- *)
Users == {"u1", "u2"}
NoUser == "none"

\* Authorization headers: absent, wrong scheme, bearer with a token the
\* identity collaborator rejects, bearer tokens of the two users
NoHeader == <<>>

\* admin.auth().verifyIdToken(idToken): the uid, or NoUser when it throws
verifyIdToken(tok) == IF tok \in Users THEN tok ELSE NoUser
Headers == {NoHeader, <<"Bearer ", "u1">>, <<"Bearer ", "u2">>}
OwnerHeaders == {<<"Bearer ", "u1">>}
AllHeaders == Headers \cup {<<"Basic ", "u1">>, <<"Bearer ", "expired">>}

\* verifyAuth: the uid put in req.user, or NoUser when it answers 401
verifyAuthAnyScheme(h) ==
  IF h = NoHeader THEN NoUser ELSE verifyIdToken(h[2])
verifyAuth(h) ==
  IF h = NoHeader \/ h[1] # "Bearer " THEN NoUser ELSE verifyIdToken(h[2])

\* the number of times verifyIdToken is called for a request: verifyAuth is
\* mounted on the application and again on every route
verifyIdTokenCalls(h) ==
  IF h = NoHeader \/ h[1] # "Bearer " THEN 0
  ELSE IF verifyIdToken(h[2]) = NoUser THEN 1 ELSE 2

\* quantity_entries of a body: an array, or a value that is not an array
Arr(elems) == [arr |-> TRUE, elems |-> elems]
NotArray == [arr |-> FALSE, elems |-> <<>>]

Body(nm, d, q) ==
  [name |-> nm, selected_date |-> d, quantity_entries |-> q,
   item |-> "rice", unit |-> "kg"]

ValidBodies ==
  {Body("Anu", "D1T00", Arr(<<N(2), N(3)>>)),
   [Body("Anu", "D1T09", Arr(<<N(1)>>)) EXCEPT !.item = "wheat", !.unit = "g"],
   Body("Anu", "D2T00", Arr(<<N(1)>>))}
FaultyBodies ==
  {Body("", "D1T00", Arr(<<N(1)>>)),
   Body("Anu", "", Arr(<<N(1)>>)),
   Body("Anu", "garbage", Arr(<<N(1)>>)),
   Body("Anu", "D1T00", NotArray),
   Body("Anu", "D1T00", Arr(<<>>)),
   Body("Anu", "D1T00", Arr(<<S("a")>>))}
Bodies == ValidBodies \cup FaultyBodies
NoBody == Body("", "", NotArray)

\* ?lastVisibleDate&pageSize of the details request
DefaultPageSize == 10
NoCursor == 0
PageSizes == {1, 2, DefaultPageSize}
\* no startAfter on the query
NoStart == [on |-> FALSE, date |-> 0, id |-> 0]
NoQuery ==
  [lastVisibleDate |-> NoCursor, pageSize |-> DefaultPageSize, name |-> ""]

\* names as the sequences of their code points, which is how the store
\* orders strings; "Ra#1F600" stands for "Ra" followed by U+1F600
CodePoints(nm) ==
  CASE nm = "" -> <<>>
    [] nm = "Anu" -> <<65, 110, 117>>
    [] nm = "S" -> <<83>>
    [] nm = "Sa" -> <<83, 97>>
    [] nm = "Ra" -> <<82, 97>>
    [] nm = "Raj" -> <<82, 97, 106>>
    [] nm = "Ra#1F600" -> <<82, 97, 128512>>
\* "\uf8ff"
Sentinel == 63743
PersonNames == {"Ra", "Raj", "Sa", "Ra#1F600"}
SearchNames == {"", "Ra", "S"}
SearchBodies == {Body(nm, "D1T00", Arr(<<N(1)>>)) : nm \in PersonNames}

(* ------------------------------- state --------------------------------- *)
VARIABLES
  persons,   \* the persons collection: id -> Person document
  details,   \* the details subcollections: id -> Detail document and parent
  usedDetails, \* detail ids the store has assigned (never assigned again)
  req,       \* per connection slot: the request in flight or last answered
  started,   \* number of requests issued so far, also the clock
  hist       \* per person id: history of the requests on it (for the claims)

vars == <<persons, details, usedDetails, req, started, hist>>

IdleReq ==
  [pc |-> "idle", kind |-> "none", n |-> 0, header |-> NoHeader,
   user |-> NoUser, id |-> 0,
   body |-> NoBody, query |-> NoQuery,
   total |-> Undef, pid |-> 0, oldTotal |-> Undef, existing |-> 0,
   oldEntries |-> <<>>, startAfter |-> NoStart, snap |-> {},
   status |-> 0, out |-> Undef, page |-> <<>>,
   wrote |-> {}, alone |-> TRUE, settled |-> FALSE, prev |-> 0,
   before |-> <<>>,
   rver |-> 0, wver |-> 0,
   walk |-> <<>>, seen |-> "none", target |-> 0, merged |-> FALSE,
   calls |-> 0, found |-> {}]

NoHist ==
  [owner |-> NoUser, made |-> FALSE, early |-> FALSE, sum |-> 0,
   pure |-> FALSE, ver |-> 0, last |-> 0, broke |-> FALSE]

Init ==
  /\ persons = <<>>
  /\ details = <<>>
  /\ usedDetails = {}
  /\ req = [r \in Slots |-> IdleReq]
  /\ started = 0
  /\ hist = [p \in PersonIds |-> NoHist]

(* ------------------------- store and helpers --------------------------- *)
\* the function f extended or overwritten at key k
Put(f, k, v) == [x \in DOMAIN f \cup {k} |-> IF x = k THEN v ELSE f[x]]
\* the function f without the keys in ks
Drop(f, ks) == [x \in DOMAIN f \ ks |-> f[x]]

\* personRef.collection("details"): the ids of the Details under person p
DetailsOf(p) == {d \in DOMAIN details : details[d].parent = p}

\* detailRef.where("selected_date", "==", nd).get(): matching ids; the
\* snapshot lists them by document id
DateSnap(p, nd) == {d \in DetailsOf(p) : details[d].selected_date = nd}
Min(s) == CHOOSE x \in s : \A y \in s : x <= y

\* a request that has been accepted and has not been answered yet
InFlight(q) == req[q].pc \notin {"idle", "done"}

\* in-flight requests, other than slot r, that write Person p or its Details
Writers(r, p) ==
  {q \in Slots \ {r} :
     /\ InFlight(q)
     /\ \/ req[q].kind \in {"add", "delete"} /\ req[q].id = p
        \/ req[q].kind = "create" /\ req[q].pid = p}
Adders(r, p) == {q \in Writers(r, p) : req[q].kind \in {"add", "create"}}

\* !personDoc.exists || personDoc.data().user_id !== userId
NotOwnedExistsOnly(p, u) == p \notin DOMAIN persons
NotOwned(p, u) == p \notin DOMAIN persons \/ persons[p].user_id # u

\* what personRef.get() finds for user u
Seen(p, u) ==
  IF p \notin DOMAIN persons THEN "absent"
  ELSE IF persons[p].user_id # u THEN "foreign" ELSE "own"

\* the locals of a handler that has returned are dead
Answer(rq, st) ==
  [rq EXCEPT !.pc = "done", !.status = st, !.total = Undef, !.existing = 0,
             !.oldEntries = <<>>, !.startAfter = NoStart, !.snap = {}]

\* res.status(404).json({ error: "Person not found or unauthorized" })
NotFoundBody == S("Person not found or unauthorized")
NotFound(rq) == Answer([rq EXCEPT !.out = NotFoundBody], 404)

\* !name || !selected_date || !Array.isArray(quantity_entries) ||
\* quantity_entries.length === 0
BodyRejected(b) ==
  \/ b.name = ""
  \/ b.selected_date = ""
  \/ ~b.quantity_entries.arr
  \/ Len(b.quantity_entries.elems) = 0

AllNumbers(arr) == \A i \in 1..Len(arr) : arr[i].t = "num"
RECURSIVE SumNums(_)
SumNums(arr) == IF arr = <<>> THEN 0 ELSE Head(arr).n + SumNums(Tail(arr))

NewReq(kind, h, u, id, b, q) ==
  [IdleReq EXCEPT !.pc = "start", !.kind = kind, !.n = started + 1,
                  !.header = h, !.user = u, !.id = id, !.body = b, !.query = q,
                  !.calls = verifyIdTokenCalls(h)]

CanStart(r) == req[r].pc \in {"idle", "done"} /\ started < MaxReq

\* Persons created so far, and create requests that are about to create one
Creating ==
  Cardinality({p \in PersonIds : hist[p].owner # NoUser})
  + Cardinality({q \in Slots : req[q].pc = "cp_addPerson"})

\* requests in ws have been overlapped by another writer of their Person
Disturb(ws) ==
  [q \in Slots |-> IF q \in ws THEN [req[q] EXCEPT !.alone = FALSE] ELSE req[q]]

(* --------------------------- POST /create-person ----------------------- *)
\* verifyAuth, destructuring, validation, totalQuantity
StartCreate(r, H, B) ==
  /\ CanStart(r)
  /\ Creating < MaxPersons
  /\ \E h \in H, b \in B :
       LET u == verifyAuth(h)
           rq == NewReq("create", h, u, 0, b, NoQuery)
       IN req' = [req EXCEPT ![r] =
            IF u = NoUser THEN Answer([rq EXCEPT !.body = NoBody], 401)
            ELSE IF BodyRejected(b) THEN Answer(rq, 400)
            ELSE [rq EXCEPT !.pc = "cp_addPerson",
                            !.total = ReduceSum(b.quantity_entries.elems)]]
  /\ started' = started + 1
  /\ UNCHANGED <<persons, details, usedDetails, hist>>

\* db.collection("persons").add(...); building the Detail then throws on an
\* Invalid Date
CreateAddPerson(r) ==
  /\ req[r].pc = "cp_addPerson"
  /\ LET pid == Min({p \in PersonIds : hist[p].owner = NoUser})
         b == req[r].body
         ws == Writers(r, pid)
         bad == normalizeDate(b.selected_date) = NaN
         rq == [req[r] EXCEPT !.pid = pid, !.wrote = {"person"},
                              !.alone = (ws = {})]
     IN /\ persons' = Put(persons, pid,
             [user_id |-> req[r].user, name |-> b.name,
              total_quantity |-> req[r].total, unit |-> b.unit,
              item |-> b.item, created_at |-> started,
              modified_at |-> started])
        /\ hist' = [hist EXCEPT ![pid] =
             [owner |-> req[r].user, made |-> FALSE,
              early |-> Adders(r, pid) # {}, sum |-> 0,
              pure |-> /\ AllNumbers(b.quantity_entries.elems)
                       /\ Adders(r, pid) = {}
                       /\ ~bad,
              ver |-> 1, last |-> 0, broke |-> FALSE]]
        /\ req' = [Disturb(ws) EXCEPT ![r] =
             IF bad THEN Answer(rq, 500)
             ELSE [rq EXCEPT !.pc = "cp_addDetail"]]
  /\ UNCHANGED <<details, usedDetails, started>>

\* personRef.collection("details").add(...); res.json
CreateAddDetail(r) ==
  /\ req[r].pc = "cp_addDetail"
  /\ LET b == req[r].body
     IN /\ \E d \in DetailIds \ usedDetails :
             /\ details' = Put(details, d,
                  [parent |-> req[r].pid,
                   selected_date |-> normalizeDate(b.selected_date),
                   quantity_entries |-> b.quantity_entries.elems,
                   item |-> b.item, unit |-> b.unit,
                   total_quantity |-> req[r].total,
                   created_date |-> b.selected_date,
                   modified_date |-> b.selected_date])
             /\ usedDetails' = usedDetails \cup {d}
             /\ req' = [req EXCEPT ![r] =
                  Answer([req[r] EXCEPT !.wrote = @ \cup {"detail"},
                            !.target = d, !.out = N(req[r].pid)], 200)]
        /\ hist' = [hist EXCEPT
             ![req[r].pid].sum = SumNums(b.quantity_entries.elems),
             ![req[r].pid].made = TRUE]
  /\ UNCHANGED <<persons, started>>

(* ------------------------ POST /person/:id/add-entry ------------------- *)
\* verifyAuth, destructuring, validation, totalNew
StartAdd(r, H, B) ==
  /\ CanStart(r)
  /\ \E h \in H, p \in PersonIds, b \in B :
       LET u == verifyAuth(h)
           rq == NewReq("add", h, u, p, b, NoQuery)
           ws == Writers(r, p)
           hit == DateSnap(p, normalizeDate(b.selected_date))
       IN IF u = NoUser
          THEN /\ req' = [req EXCEPT ![r] =
                    Answer([rq EXCEPT !.body = NoBody, !.id = 0], 401)]
               /\ hist' = hist
          ELSE IF BodyRejected(b)
          THEN /\ req' = [req EXCEPT ![r] = Answer(rq, 400)]
               /\ hist' = hist
          ELSE /\ req' = [Disturb(ws) EXCEPT ![r] =
                    [rq EXCEPT !.pc = "ae_getPerson",
                               !.total = ReduceSum(b.quantity_entries.elems),
                               !.alone = (ws = {}),
                               !.settled = hist[p].made,
                               !.prev = hist[p].last,
                               !.before = IF hit = {} THEN <<>>
                                 ELSE details[Min(hit)].quantity_entries]]
               /\ hist' = [hist EXCEPT
                    ![p].last = started + 1,
                    ![p].early = @ \/ ~hist[p].made,
                    ![p].pure = /\ @
                                /\ Adders(r, p) = {}
                                /\ AllNumbers(b.quantity_entries.elems)]
  /\ started' = started + 1
  /\ UNCHANGED <<persons, details, usedDetails>>

\* personRef.get(); the ownership check; oldTotal
AddGetPerson(r) ==
  /\ req[r].pc = "ae_getPerson"
  /\ LET p == req[r].id
         rq == [req[r] EXCEPT !.seen = Seen(p, req[r].user)]
     IN req' = [req EXCEPT ![r] =
          IF NotOwned(p, req[r].user)
          THEN NotFound(rq)
          ELSE [rq EXCEPT !.pc = "ae_updPerson",
                  !.oldTotal = JsOrZero(persons[p].total_quantity),
                  !.rver = hist[p].ver]]
  /\ UNCHANGED <<persons, details, usedDetails, started, hist>>

\* personRef.update({total_quantity: oldTotal + totalNew}); update() throws
\* when the document is gone; building the query throws on an Invalid Date
AddUpdatePersonFresh(r) ==
  [persons EXCEPT ![req[r].id].total_quantity = JsAdd(@, req[r].total)]
AddUpdatePersonTouch(r) ==
  [persons EXCEPT ![req[r].id].total_quantity =
                    JsAdd(req[r].oldTotal, req[r].total),
                  ![req[r].id].modified_at = started]
AddUpdatePersonWrite(r) ==
  [persons EXCEPT ![req[r].id].total_quantity =
     JsAdd(req[r].oldTotal, req[r].total)]
AddUpdatePerson(r) ==
  /\ req[r].pc = "ae_updPerson"
  /\ LET p == req[r].id
         bad == normalizeDate(req[r].body.selected_date) = NaN
     IN IF p \notin DOMAIN persons
        THEN /\ req' = [req EXCEPT ![r] = Answer(req[r], 500)]
             /\ hist' = [hist EXCEPT ![p].pure = FALSE]
             /\ persons' = persons
        ELSE /\ persons' = AddUpdatePersonWrite(r)
             /\ hist' = [hist EXCEPT ![p].ver = @ + 1,
                                     ![p].pure = @ /\ ~bad]
             /\ LET rq == [req[r] EXCEPT !.wrote = @ \cup {"person"},
                                         !.wver = hist[p].ver + 1]
                IN req' = [req EXCEPT ![r] =
                     IF bad THEN Answer(rq, 500)
                     ELSE [rq EXCEPT !.pc = "ae_query"]]
  /\ UNCHANGED <<details, usedDetails, started>>

\* detailRef.where("selected_date", "==", normalizeDate(selected_date)).get()
\* and, when not empty, docs[0] and its quantity_entries
AddQueryDetails(r) ==
  /\ req[r].pc = "ae_query"
  /\ LET hit == DateSnap(req[r].id, normalizeDate(req[r].body.selected_date))
     IN req' = [req EXCEPT ![r] =
          IF hit # {}
          THEN [req[r] EXCEPT !.pc = "ae_updDetail", !.existing = Min(hit),
                  !.oldEntries = details[Min(hit)].quantity_entries]
          ELSE [req[r] EXCEPT !.pc = "ae_addDetail"]]
  /\ UNCHANGED <<persons, details, usedDetails, started, hist>>

\* [...oldEntries, ...quantity_entries]
updatedEntriesNewFirst(r) ==
  req[r].body.quantity_entries.elems \o req[r].oldEntries
updatedEntries(r) ==
  req[r].oldEntries \o req[r].body.quantity_entries.elems

\* detailRef.doc(existingDoc.id).update({quantity_entries}); res.json
AddUpdateDetail(r) ==
  /\ req[r].pc = "ae_updDetail"
  /\ LET p == req[r].id
         d == req[r].existing
     IN IF d \notin DOMAIN details
        THEN /\ req' = [req EXCEPT ![r] = Answer(req[r], 500)]
             /\ hist' = [hist EXCEPT ![p].pure = FALSE]
             /\ details' = details
        ELSE /\ details' = [details EXCEPT ![d].quantity_entries =
                              updatedEntries(r)]
             /\ req' = [req EXCEPT ![r] =
                  Answer([req[r] EXCEPT !.wrote = @ \cup {"detail"},
                            !.target = d, !.merged = TRUE,
                            !.out = JsAdd(req[r].oldTotal, req[r].total)], 200)]
             /\ hist' = [hist EXCEPT ![p].sum =
                  @ + SumNums(req[r].body.quantity_entries.elems)]
  /\ UNCHANGED <<persons, usedDetails, started>>

\* detailRef.add({...}) without a total_quantity field; res.json
AddAddDetail(r) ==
  /\ req[r].pc = "ae_addDetail"
  /\ LET p == req[r].id
         b == req[r].body
     IN /\ \E d \in DetailIds \ usedDetails :
             /\ details' = Put(details, d,
                  [parent |-> p,
                   selected_date |-> normalizeDate(b.selected_date),
                   quantity_entries |-> b.quantity_entries.elems,
                   item |-> b.item, unit |-> b.unit,
                   total_quantity |-> Undef,
                   created_date |-> b.selected_date,
                   modified_date |-> b.selected_date])
             /\ usedDetails' = usedDetails \cup {d}
             /\ req' = [req EXCEPT ![r] =
                  Answer([req[r] EXCEPT !.wrote = @ \cup {"detail"},
                       !.target = d,
                       !.out = JsAdd(req[r].oldTotal, req[r].total)], 200)]
        /\ hist' = [hist EXCEPT ![p].sum =
             @ + SumNums(b.quantity_entries.elems)]
  /\ UNCHANGED <<persons, started>>

(* ------------------------- GET /person/:id/details --------------------- *)
\* verifyAuth and the query parameters
StartList(r, H) ==
  /\ CanStart(r)
  /\ \E h \in H, p \in PersonIds,
        c \in {NoCursor} \cup DetailIds, ps \in PageSizes :
       LET u == verifyAuth(h)
           q == [NoQuery EXCEPT !.lastVisibleDate = c, !.pageSize = ps]
           rq == NewReq("list", h, u, p, NoBody, q)
       IN req' = [req EXCEPT ![r] =
            IF u = NoUser
            THEN Answer([rq EXCEPT !.id = 0, !.query = NoQuery], 401)
            ELSE [rq EXCEPT !.pc = "ld_getPerson"]]
  /\ started' = started + 1
  /\ UNCHANGED <<persons, details, usedDetails, hist>>

\* personRef.get(); the ownership check
ListGetPerson(r) ==
  /\ req[r].pc = "ld_getPerson"
  /\ LET p == req[r].id
         rq == [req[r] EXCEPT !.seen = Seen(p, req[r].user)]
     IN req' = [req EXCEPT ![r] =
          IF NotOwned(p, req[r].user)
          THEN NotFound(rq)
          ELSE IF req[r].query.lastVisibleDate # NoCursor
          THEN [rq EXCEPT !.pc = "ld_getCursor"]
          ELSE [rq EXCEPT !.pc = "ld_query"]]
  /\ UNCHANGED <<persons, details, usedDetails, started, hist>>

\* personRef.collection("details").doc(lastVisibleDate).get(); startAfter
\* if (lastSnap.exists) ref = ref.startAfter(lastSnap)
lastSnapMissingIsEnd(p, c) ==
  IF c \in DetailsOf(p)
  THEN [on |-> TRUE, date |-> details[c].selected_date, id |-> c]
  ELSE [on |-> TRUE, date |-> 0, id |-> 0]
lastSnap(p, c) ==
  IF c \in DetailsOf(p)
  THEN [on |-> TRUE, date |-> details[c].selected_date, id |-> c]
  ELSE NoStart

ListGetCursor(r) ==
  /\ req[r].pc = "ld_getCursor"
  /\ req' = [req EXCEPT ![r] =
       [req[r] EXCEPT !.pc = "ld_query",
          !.startAfter = lastSnap(req[r].id, req[r].query.lastVisibleDate)]]
  /\ UNCHANGED <<persons, details, usedDetails, started, hist>>

\* d comes before the position (date, id) in orderBy("selected_date", "desc")
Before(d, date, id) ==
  \/ details[d].selected_date > date
  \/ details[d].selected_date = date /\ d > id

\* the ids in ds in descending selected_date order (ties by document id)
RECURSIVE SortDesc(_)
SortDesc(ds) ==
  IF ds = {} THEN <<>>
  ELSE LET top == CHOOSE d \in ds : \A e \in ds \ {d} :
                    Before(d, details[e].selected_date, e)
       IN <<top>> \o SortDesc(ds \ {top})

Take(seq, k) == SubSeq(seq, 1, IF Len(seq) < k THEN Len(seq) ELSE k)

\* orderBy("selected_date", "desc").limit(pageSize) [.startAfter(lastSnap)]
PageOfOlderDates(p, sa, k) ==
  LET all == DetailsOf(p)
      rest == IF sa.on
              THEN {d \in all : details[d].selected_date < sa.date}
              ELSE all
      ids == Take(SortDesc(rest), k)
  IN [i \in 1..Len(ids) |-> [id |-> ids[i], doc |-> details[ids[i]]]]
PageOf(p, sa, k) ==
  LET all == DetailsOf(p)
      rest == IF sa.on
              THEN {d \in all : ~Before(d, sa.date, sa.id) /\ d # sa.id}
              ELSE all
      ids == Take(SortDesc(rest), k)
  IN [i \in 1..Len(ids) |-> [id |-> ids[i], doc |-> details[ids[i]]]]

\* ref.get(); res.json(details)
ListQuery(r) ==
  /\ req[r].pc = "ld_query"
  /\ req' = [req EXCEPT ![r] =
       Answer([req[r] EXCEPT !.page =
          PageOf(req[r].id, req[r].startAfter, req[r].query.pageSize)], 200)]
  /\ UNCHANGED <<persons, details, usedDetails, started, hist>>

\* the ids of the Details of a page, in the order of the page
PageIds(page) == [i \in 1..Len(page) |-> page[i].id]

\* the client's next request of a walk: the same person and pageSize, the
\* cursor is the id of the last Detail of the page just received
NextPage(r, H) ==
  /\ CanStart(r)
  /\ req[r].pc = "done" /\ req[r].kind = "list" /\ req[r].status = 200
  /\ req[r].page # <<>>
  /\ (req[r].query.lastVisibleDate = NoCursor \/ req[r].walk # <<>>)
  /\ \E h \in H :
       LET u == verifyAuth(h)
           q == [req[r].query EXCEPT
                   !.lastVisibleDate = req[r].page[Len(req[r].page)].id]
           rq == NewReq("list", h, u, req[r].id, NoBody, q)
       IN /\ u = req[r].user
          /\ req' = [req EXCEPT ![r] =
               [rq EXCEPT !.pc = "ld_getPerson",
                          !.walk = req[r].walk \o PageIds(req[r].page)]]
  /\ started' = started + 1
  /\ UNCHANGED <<persons, details, usedDetails, hist>>

(* ------------------------------ GET /persons --------------------------- *)
StartPersons(r, H) ==
  /\ CanStart(r)
  /\ \E h \in H :
       LET u == verifyAuth(h)
           rq == NewReq("persons", h, u, 0, NoBody, NoQuery)
       IN req' = [req EXCEPT ![r] =
            IF u = NoUser THEN Answer(rq, 401)
            ELSE [rq EXCEPT !.pc = "lp_query"]]
  /\ started' = started + 1
  /\ UNCHANGED <<persons, details, usedDetails, hist>>

\* db.collection("persons").where("user_id", "==", userId).get(); res.json
PersonsQuery(r) ==
  /\ req[r].pc = "lp_query"
  /\ req' = [req EXCEPT ![r] =
       Answer([req[r] EXCEPT !.found =
          {p \in DOMAIN persons : persons[p].user_id = req[r].user}], 200)]
  /\ UNCHANGED <<persons, details, usedDetails, started, hist>>

(* --------------------------- GET /persons/search ----------------------- *)
\* a <= b in the order of the store: by the first code point that differs,
\* a prefix before its extensions
LexLeq(a, b) ==
  LET n == IF Len(a) < Len(b) THEN Len(a) ELSE Len(b)
      diff == {i \in 1..n : a[i] # b[i]}
  IN IF diff = {} THEN Len(a) <= Len(b)
     ELSE a[Min(diff)] < b[Min(diff)]

\* verifyAuth; if (!name) return 400
StartSearch(r, H, NM) ==
  /\ CanStart(r)
  /\ \E h \in H, nm \in NM :
       LET u == verifyAuth(h)
           rq == NewReq("search", h, u, 0, NoBody,
                        [NoQuery EXCEPT !.name = nm])
       IN req' = [req EXCEPT ![r] =
            IF u = NoUser THEN Answer([rq EXCEPT !.query = NoQuery], 401)
            ELSE IF nm = "" THEN Answer(rq, 400)
            ELSE [rq EXCEPT !.pc = "sp_query"]]
  /\ started' = started + 1
  /\ UNCHANGED <<persons, details, usedDetails, hist>>

\* .where("user_id", "==", userId).where("name", ">=", name)
\* .where("name", "<=", name + "\uf8ff").get(); res.json
SearchRange(u, nm) ==
  {p \in DOMAIN persons :
     /\ persons[p].user_id = u
     /\ LexLeq(CodePoints(nm), CodePoints(persons[p].name))
     /\ LexLeq(CodePoints(persons[p].name), CodePoints(nm) \o <<Sentinel>>)}

SearchQuery(r) ==
  /\ req[r].pc = "sp_query"
  /\ req' = [req EXCEPT ![r] =
       Answer([req[r] EXCEPT !.found =
          SearchRange(req[r].user, req[r].query.name)], 200)]
  /\ UNCHANGED <<persons, details, usedDetails, started, hist>>

(* ------------------------ DELETE /person-delete/:id -------------------- *)
StartDelete(r, H) ==
  /\ CanStart(r)
  /\ \E h \in H, p \in PersonIds :
       LET u == verifyAuth(h)
           rq == NewReq("delete", h, u, p, NoBody, NoQuery)
       IN req' = IF u = NoUser
                 THEN [req EXCEPT ![r] = Answer([rq EXCEPT !.id = 0], 401)]
                 ELSE [Disturb(Writers(r, p)) EXCEPT ![r] =
                         [rq EXCEPT !.pc = "dp_getPerson",
                                    !.alone = (Writers(r, p) = {}),
                                    !.settled = hist[p].made]]
  /\ started' = started + 1
  /\ UNCHANGED <<persons, details, usedDetails, hist>>

\* personRef.get(); the ownership check
DelGetPerson(r) ==
  /\ req[r].pc = "dp_getPerson"
  /\ LET p == req[r].id
         rq == [req[r] EXCEPT !.seen = Seen(p, req[r].user)]
     IN req' = [req EXCEPT ![r] =
          IF NotOwned(p, req[r].user)
          THEN NotFound(rq)
          ELSE [rq EXCEPT !.pc = "dp_getDetails"]]
  /\ UNCHANGED <<persons, details, usedDetails, started, hist>>

\* personRef.collection("details").get()
DelGetDetails(r) ==
  /\ req[r].pc = "dp_getDetails"
  /\ req' = [req EXCEPT ![r] =
       [req[r] EXCEPT !.pc = "dp_commit", !.snap = DetailsOf(req[r].id)]]
  /\ UNCHANGED <<persons, details, usedDetails, started, hist>>

\* batch.delete of every Detail of the snapshot and of the Person;
\* batch.commit(); res.json
DelCommit(r) ==
  /\ req[r].pc = "dp_commit"
  /\ details' = Drop(details, req[r].snap)
  /\ persons' = Drop(persons, {req[r].id})
  /\ req' = [req EXCEPT ![r] =
       Answer([req[r] EXCEPT !.wrote = {"person", "detail"}], 200)]
  /\ UNCHANGED <<usedDetails, started, hist>>

(* --------------------------- store failures ---------------------------- *)
\* the awaited store operation rejects: the catch block answers 500
StoreFails(r) ==
  /\ InFlight(r)
  /\ req' = [req EXCEPT ![r] = Answer(req[r], 500)]
  /\ LET p == IF req[r].kind = "create" THEN req[r].pid ELSE req[r].id
     IN hist' = IF req[r].kind \in {"create", "add"} /\ p # 0
                THEN [hist EXCEPT ![p].pure = FALSE,
                                  ![p].broke = @ \/ req[r].pc = "cp_addDetail"]
                ELSE hist
  /\ UNCHANGED <<persons, details, usedDetails, started>>

\* requests of one user with accepted bodies, interleaving at every await
Next ==
  \E r \in Slots :
    \/ StartCreate(r, OwnerHeaders, ValidBodies)
    \/ CreateAddPerson(r) \/ CreateAddDetail(r)
    \/ StartAdd(r, OwnerHeaders, ValidBodies)
    \/ AddGetPerson(r) \/ AddUpdatePerson(r)
    \/ AddQueryDetails(r) \/ AddUpdateDetail(r) \/ AddAddDetail(r)
    \/ StartDelete(r, OwnerHeaders)
    \/ DelGetPerson(r) \/ DelGetDetails(r) \/ DelCommit(r)

Spec == Init /\ [][Next]_vars

\* one request at a time, of any user, with any body, with store failures
NextSeq ==
  \/ StartCreate(1, Headers, Bodies)
  \/ CreateAddPerson(1) \/ CreateAddDetail(1)
  \/ StartAdd(1, Headers, Bodies)
  \/ AddGetPerson(1) \/ AddUpdatePerson(1)
  \/ AddQueryDetails(1) \/ AddUpdateDetail(1) \/ AddAddDetail(1)
  \/ StartList(1, Headers)
  \/ ListGetPerson(1) \/ ListGetCursor(1) \/ ListQuery(1)
  \/ StartDelete(1, Headers)
  \/ DelGetPerson(1) \/ DelGetDetails(1) \/ DelCommit(1)
  \/ StoreFails(1)

SpecSeq == Init /\ [][NextSeq]_vars

\* a store left by earlier requests of user u1: Persons 1 and 2, and under
\* them any Details of one entry each on day 1 or day 2; two Details of one
\* Person on one day are what overlapping add-entry requests leave behind
PageLabels == {"D1T00", "D2T00"}
NoDetail == [parent |-> 0, label |-> ""]
StoredDetail(p, label) ==
  [parent |-> p, selected_date |-> normalizeDate(label),
   quantity_entries |-> <<N(1)>>, item |-> "rice", unit |-> "kg",
   total_quantity |-> Undef,
   created_date |-> label, modified_date |-> label]
StoredPerson(n) ==
  [user_id |-> "u1", name |-> "Anu",
   total_quantity |-> N(IF n = 0 THEN 1 ELSE n), unit |-> "kg",
   item |-> "rice", created_at |-> 0, modified_at |-> 0]

InitPage ==
  \E f \in [DetailIds ->
              {NoDetail} \cup [parent : PersonIds, label : PageLabels]] :
    LET ds == {d \in DetailIds : f[d] # NoDetail}
    IN /\ details = [d \in ds |-> StoredDetail(f[d].parent, f[d].label)]
       /\ usedDetails = ds
       /\ persons = [p \in PersonIds |->
            StoredPerson(Cardinality({d \in ds : f[d].parent = p}))]
       /\ req = [r \in Slots |-> IdleReq]
       /\ started = 0
       /\ hist = [p \in PersonIds |->
            [NoHist EXCEPT !.owner = "u1", !.made = TRUE, !.ver = 1]]

\* one client of the owner reading the Details of a store nobody writes
NextPageSeq ==
  \/ StartList(1, OwnerHeaders)
  \/ NextPage(1, OwnerHeaders)
  \/ ListGetPerson(1) \/ ListGetCursor(1) \/ ListQuery(1)

SpecPage == InitPage /\ [][NextPageSeq]_vars

\* one request at a time: Persons of several names and the two queries
NextSearch ==
  \/ StartCreate(1, Headers, SearchBodies)
  \/ CreateAddPerson(1) \/ CreateAddDetail(1)
  \/ StartPersons(1, Headers) \/ PersonsQuery(1)
  \/ StartSearch(1, Headers, SearchNames) \/ SearchQuery(1)

SpecSearch == Init /\ [][NextSearch]_vars

\* one request at a time to any of the six handlers, with any header
NextAuth ==
  \/ StartCreate(1, AllHeaders, ValidBodies)
  \/ CreateAddPerson(1) \/ CreateAddDetail(1)
  \/ StartAdd(1, AllHeaders, ValidBodies)
  \/ AddGetPerson(1) \/ AddUpdatePerson(1)
  \/ AddQueryDetails(1) \/ AddUpdateDetail(1) \/ AddAddDetail(1)
  \/ StartPersons(1, AllHeaders) \/ PersonsQuery(1)
  \/ StartList(1, AllHeaders)
  \/ ListGetPerson(1) \/ ListGetCursor(1) \/ ListQuery(1)
  \/ StartSearch(1, AllHeaders, SearchNames) \/ SearchQuery(1)
  \/ StartDelete(1, AllHeaders)
  \/ DelGetPerson(1) \/ DelGetDetails(1) \/ DelCommit(1)

SpecAuth == Init /\ [][NextAuth]_vars

TypeOK ==
  /\ DOMAIN persons \subseteq PersonIds
  /\ DOMAIN details \subseteq usedDetails
  /\ usedDetails \subseteq DetailIds
  /\ started \in 0..MaxReq

(* ------------------------------ claims --------------------------------- *)
Done(r) == req[r].pc = "done"
Entries(r) == req[r].body.quantity_entries.elems
Day(r) == normalizeDate(req[r].body.selected_date)
\* an add-entry request answered with success
AddOk(r) == Done(r) /\ req[r].kind = "add" /\ req[r].status = 200

\* C1: a Person made by a successful create-person and changed only by
\* successful add-entry requests that did not overlap each other has a
\* total_quantity equal to the sum of the numbers of the create request and
\* of every appended quantity_entries.
C1_TotalIsSumOfEntries ==
  \A p \in DOMAIN persons :
    (hist[p].pure /\ Adders(0, p) = {})
      => persons[p].total_quantity = N(hist[p].sum)

C1_Witness ==
  \E p \in DOMAIN persons, r \in Slots :
    /\ hist[p].pure /\ Adders(0, p) = {}
    /\ AddOk(r) /\ req[r].id = p
    /\ hist[p].sum > SumNums(Entries(r))
    /\ persons[p].total_quantity = N(hist[p].sum)

\* no request is in flight
Quiescent == \A r \in Slots : ~InFlight(r)

RECURSIVE SumDetailTotals(_)
SumDetailTotals(ds) ==
  IF ds = {} THEN 0
  ELSE LET d == CHOOSE x \in ds : TRUE
       IN details[d].total_quantity.n + SumDetailTotals(ds \ {d})

\* C2: after completed create-person and add-entry requests, a Person's
\* total_quantity equals the sum of the total_quantity fields of its Details.
C2_TotalIsSumOfDetailTotals ==
  \A p \in DOMAIN persons :
    (Quiescent /\ hist[p].pure)
      => /\ \A d \in DetailsOf(p) : details[d].total_quantity.t = "num"
         /\ persons[p].total_quantity = N(SumDetailTotals(DetailsOf(p)))

\* the add-entry requests on Person p were all issued after the
\* create-person of p had been answered
AddsAfterCreate(p) == hist[p].made /\ ~hist[p].early

\* C3: a Person, also one that concurrent add-entry requests write, never
\* has two Details with the same normalized selected_date.
C3_OneDetailPerDate ==
  \A d, e \in DOMAIN details :
    (d # e /\ details[d].parent = details[e].parent
       /\ AddsAfterCreate(details[d].parent))
      => details[d].selected_date # details[e].selected_date

\* C4: two successful add-entry requests A then B on the same Person and the
\* same normalized date, neither overlapped by another writer of that Person
\* and with no other add-entry between or after them, leave the Detail of that
\* date with the entries before A, then A's entries, then B's entries.
C4_Pair(a, b) ==
  /\ a # b /\ AddOk(a) /\ AddOk(b)
  /\ req[a].id = req[b].id /\ Day(a) = Day(b)
  /\ req[a].alone /\ req[b].alone
  /\ req[b].prev = req[a].n
  /\ hist[req[b].id].last = req[b].n
  /\ req[b].id \in DOMAIN persons

C4_SequentialAppendsConcatenate ==
  \A a, b \in Slots :
    C4_Pair(a, b) =>
      LET hit == DateSnap(req[b].id, Day(b))
      IN /\ hit # {}
         /\ details[Min(hit)].quantity_entries
              = req[a].before \o Entries(a) \o Entries(b)

C4_Witness ==
  \E a, b \in Slots :
    /\ C4_Pair(a, b)
    /\ req[a].before # <<>>
    /\ Entries(a) # Entries(b)
    /\ details[Min(DateSnap(req[b].id, Day(b)))].quantity_entries
         = req[a].before \o Entries(a) \o Entries(b)

\* C5: once a person-delete, issued after the create-person of that Person
\* was answered, has been answered with success, the Person and all its
\* Details are absent, whatever add-entry requests run concurrently.
C5_DeleteLeavesNothing ==
  \A r \in Slots :
    (Done(r) /\ req[r].kind = "delete" /\ req[r].status = 200
       /\ req[r].settled)
      => /\ req[r].id \notin DOMAIN persons
         /\ DetailsOf(req[r].id) = {}

\* sub occurs in seq as a run of consecutive elements
Contains(seq, sub) ==
  \E i \in 0..(Len(seq) - Len(sub)) :
    SubSeq(seq, i + 1, i + Len(sub)) = sub

\* C6: in no state does a Person's total_quantity include the entries of an
\* add-entry request while no Detail of that Person contains those entries.
C6_TotalAndDetailTogether ==
  \A r \in Slots :
    (req[r].kind = "add" /\ "person" \in req[r].wrote
       /\ req[r].settled /\ req[r].id \in DOMAIN persons)
      => \E d \in DetailsOf(req[r].id) :
           Contains(details[d].quantity_entries, Entries(r))

\* C7: two successful add-entry requests on one Person that read the same
\* version of total_quantity leave, once both have written, the total the
\* later writer computed from the stale read: the entries of the earlier
\* writer are lost, while each response reports the read total plus its own
\* sum.
C7_Pair(a, b) ==
  /\ a # b /\ AddOk(a) /\ AddOk(b)
  /\ req[a].id = req[b].id
  /\ req[a].rver = req[b].rver
  /\ req[a].wver < req[b].wver
  /\ req[b].id \in DOMAIN persons
  /\ hist[req[b].id].ver = req[b].wver

C7_LostUpdate ==
  \A a, b \in Slots :
    C7_Pair(a, b) =>
      LET old == req[b].oldTotal
          stored == persons[req[b].id].total_quantity
      IN /\ req[a].oldTotal = old
         /\ req[a].out = N(old.n + SumNums(Entries(a)))
         /\ req[b].out = N(old.n + SumNums(Entries(b)))
         /\ stored = req[b].out
         /\ stored # N(old.n + SumNums(Entries(a)) + SumNums(Entries(b)))

C7_Witness ==
  \E a, b \in Slots :
    /\ C7_Pair(a, b)
    /\ persons[req[b].id].total_quantity.n
         < req[b].oldTotal.n + SumNums(Entries(a)) + SumNums(Entries(b))

\* an answered id-addressed request of a user who is not the Person's owner
NonOwner(r) ==
  /\ Done(r) /\ req[r].kind \in {"add", "list", "delete"}
  /\ req[r].user # NoUser
  /\ hist[req[r].id].owner \notin {NoUser, req[r].user}

\* C8 as stated: add-entry, details and person-delete on a Person of another
\* user are answered 404 and write nothing (store failures set aside).
C8_NonOwnerAlways404 ==
  \A r \in Slots :
    (NonOwner(r) /\ req[r].status # 500)
      => req[r].status = 404 /\ req[r].wrote = {}

\* C8 amended: such a request writes nothing and is answered 404, except that
\* an add-entry whose body fails validation is answered 400 and that a failed
\* store read is answered 500.
C8_NonOwnerWritesNothing ==
  \A r \in Slots :
    NonOwner(r) =>
      /\ req[r].wrote = {}
      /\ IF req[r].kind = "add" /\ BodyRejected(req[r].body)
         THEN req[r].status = 400
         ELSE req[r].status \in {404, 500}

C8_Witness ==
  \E r \in Slots :
    /\ NonOwner(r) /\ req[r].status = 404 /\ req[r].wrote = {}
    /\ req[r].kind = "add" /\ req[r].id \in DOMAIN persons

\* the validation rules of the specification
Violates(b) ==
  \/ b.name = ""
  \/ b.selected_date = ""
  \/ DateParse(b.selected_date) = NaN
  \/ ~b.quantity_entries.arr
  \/ b.quantity_entries.elems = <<>>
  \/ ~AllNumbers(b.quantity_entries.elems)

\* a request that wrote nothing and was answered 500: its first store
\* operation failed
FailedRead(r) == req[r].status = 500 /\ req[r].wrote = {}

\* C9: every authenticated create-person or add-entry request that violates
\* a validation rule is answered 400 and has written nothing (a request
\* whose first store operation failed set aside).
C9_InvalidRejected400 ==
  \A r \in Slots :
    (Done(r) /\ req[r].kind \in {"create", "add"} /\ req[r].user # NoUser
       /\ Violates(req[r].body))
      => \/ req[r].status = 400 /\ req[r].wrote = {}
         \/ FailedRead(r)

\* C10: an add-entry by the owner whose body has a selected_date and a
\* non-empty quantity_entries of numbers but no name is accepted.
C10_AppendWithoutNameAccepted ==
  \A r \in Slots :
    (/\ Done(r) /\ req[r].kind = "add" /\ req[r].user # NoUser
     /\ req[r].body.name = ""
     /\ ~Violates([req[r].body EXCEPT !.name = "Anu"])
     /\ req[r].id \in DOMAIN persons
     /\ persons[req[r].id].user_id = req[r].user
     /\ req[r].status # 500)
      => req[r].status = 200

\* the Details of a page are in descending selected_date order
Descending(ids) ==
  \A i, j \in 1..Len(ids) :
    i < j => details[ids[i]].selected_date >= details[ids[j]].selected_date
NoRepeat(ids) == \A i, j \in 1..Len(ids) : i # j => ids[i] # ids[j]
Range(ids) == {ids[i] : i \in 1..Len(ids)}
\* an answered details request that is the last of a walk: an empty page
\* after the first request without a cursor and its follow-up requests
WalkEnded(r) ==
  /\ Done(r) /\ req[r].kind = "list" /\ req[r].status = 200
  /\ req[r].page = <<>>
  /\ (req[r].query.lastVisibleDate = NoCursor \/ req[r].walk # <<>>)

\* C11: with no writes in between, the pages of a walk (first request
\* without cursor, each next with the id of the last Detail of the previous
\* page, until an empty page) are pairwise disjoint, and their concatenation
\* is exactly the set of the Person's Details in descending selected_date
\* order.
C11_WalkIsComplete ==
  \A r \in Slots :
    WalkEnded(r) =>
      /\ NoRepeat(req[r].walk)
      /\ Range(req[r].walk) = DetailsOf(req[r].id)
      /\ Descending(req[r].walk)

C11_Witness ==
  \E r \in Slots :
    /\ WalkEnded(r)
    /\ req[r].query.pageSize = 1
    /\ Len(req[r].walk) = 2
    /\ details[req[r].walk[1]].selected_date
         = details[req[r].walk[2]].selected_date
    /\ Range(req[r].walk) = DetailsOf(req[r].id)

\* a starts with the code points of pre
StartsWith(a, pre) == Len(pre) <= Len(a) /\ SubSeq(a, 1, Len(pre)) = pre

\* C12: a persons search with a non-empty prefix returns exactly the Persons
\* of the caller whose name starts with the prefix, also those whose next
\* character is greater than U+F8FF.
C12_SearchIsPrefixMatch ==
  \A r \in Slots :
    (Done(r) /\ req[r].kind = "search" /\ req[r].status = 200)
      => req[r].found =
           {p \in DOMAIN persons :
              /\ persons[p].user_id = req[r].user
              /\ StartsWith(CodePoints(persons[p].name),
                            CodePoints(req[r].query.name))}

\* the header has the form 'Bearer <token>'
BearerForm(h) == h # NoHeader /\ h[1] = "Bearer "
\* ... and the identity collaborator accepts the token
Accepted(h) == BearerForm(h) /\ h[2] \in Users
\* the request has reached a store operation: it is about to perform one,
\* or it was answered by a step that performed one
AtStore(r) ==
  \/ InFlight(r)
  \/ req[r].wrote # {}
  \/ Done(r) /\ req[r].status \in {200, 404, 500}

\* C13: no request to create-person, add-entry, persons, details, search or
\* person-delete reaches a store read or write unless its Authorization
\* header is 'Bearer <token>' with a token the identity collaborator accepts;
\* a request whose header is not of that form is answered 401 and the
\* collaborator is not called for it.
C13_NoStoreAccessWithoutToken ==
  \A r \in Slots :
    req[r].pc # "idle" =>
      /\ AtStore(r) => Accepted(req[r].header) /\ req[r].user = req[r].header[2]
      /\ ~Accepted(req[r].header) => Done(r) /\ req[r].status = 401
      /\ ~BearerForm(req[r].header) => req[r].calls = 0

C13_Witness ==
  \E r \in Slots :
    /\ Done(r) /\ req[r].header = <<"Basic ", "u1">>
    /\ req[r].kind = "delete"
    /\ req[r].status = 401 /\ req[r].calls = 0
    /\ 1 \in DOMAIN persons /\ persons[1].user_id = "u1"
    /\ DetailsOf(1) # {}

\* what the client receives
Response(r) ==
  [status |-> req[r].status, out |-> req[r].out, page |-> req[r].page,
   found |-> req[r].found]

\* C14: an add-entry with a valid body, a details listing or a person-delete
\* gets one and the same response, status and body, when the Person exists
\* but belongs to another user and when the id names no Person.
C14_ForeignLooksAbsent ==
  \A r \in Slots :
    (Done(r) /\ req[r].kind \in {"add", "list", "delete"}
       /\ req[r].seen \in {"absent", "foreign"})
      => Response(r) =
           [status |-> 404, out |-> NotFoundBody, page |-> <<>>, found |-> {}]

C14_Witness ==
  \E r \in Slots :
    /\ Done(r) /\ req[r].kind = "list" /\ req[r].seen = "foreign"
    /\ DetailsOf(req[r].id) # {}
    /\ Response(r) =
         [status |-> 404, out |-> NotFoundBody, page |-> <<>>, found |-> {}]

\* C15: an add-entry that finds a Detail for its normalized date (on a
\* Person written only by valid, successful requests) leaves that Detail
\* with the appended quantity_entries, with a modified_date equal to the
\* request's selected_date and with the request's item and unit.
C15_MergeUpdatesMetadata ==
  \A r \in Slots :
    (AddOk(r) /\ req[r].merged /\ req[r].target \in DOMAIN details
       /\ hist[req[r].id].pure)
      => LET d == details[req[r].target]
         IN /\ d.quantity_entries = req[r].before \o Entries(r)
            /\ d.modified_date = req[r].body.selected_date
            /\ d.item = req[r].body.item
            /\ d.unit = req[r].body.unit

\* C16: the Detail a create-person or an add-entry has just created, on a
\* Person written only by valid, successful requests, has a total_quantity
\* field equal to the sum of its quantity_entries.
C16_NewDetailHasTotal ==
  \A r \in Slots :
    (Done(r) /\ req[r].kind \in {"create", "add"} /\ req[r].status = 200
       /\ ~req[r].merged /\ req[r].target \in DOMAIN details
       /\ hist[details[req[r].target].parent].pure)
      => LET d == details[req[r].target]
         IN /\ d.quantity_entries = Entries(r)
            /\ d.total_quantity = N(SumNums(d.quantity_entries))

\* an answered details request of the owner whose cursor names a Detail of
\* the Person
CursorHit(r) ==
  /\ Done(r) /\ req[r].kind = "list" /\ req[r].status = 200
  /\ req[r].query.lastVisibleDate \in DetailsOf(req[r].id)

\* C17: a details request by the owner whose cursor names an existing
\* Detail d of the Person returns at most pageSize Details, in descending
\* selected_date order, without d, and only Details whose selected_date is
\* strictly older than d's.
C17_PageAfterCursor ==
  \A r \in Slots :
    CursorHit(r) =>
      LET ids == PageIds(req[r].page)
          c == req[r].query.lastVisibleDate
      IN /\ Len(ids) <= req[r].query.pageSize
         /\ Descending(ids)
         /\ c \notin Range(ids)
         /\ \A d \in Range(ids) :
              details[d].selected_date < details[c].selected_date

\* the sum of the numbers in the quantity_entries of the Details in ds
RECURSIVE SumDetailEntries(_)
SumDetailEntries(ds) ==
  IF ds = {} THEN 0
  ELSE LET d == CHOOSE x \in ds : TRUE
           nums == SelectSeq(details[d].quantity_entries,
                             LAMBDA e : e.t = "num")
       IN SumNums(nums) + SumDetailEntries(ds \ {d})

\* C18: a create-person whose Person write succeeded and whose Detail write
\* failed is answered 500 and leaves the Person in the store, owned by the
\* caller, with a total_quantity that does not exceed the sum of the
\* quantity_entries of its Details, also after later add-entry requests.
C18_FailedCreateLeavesNoCorruption ==
  /\ \A r \in Slots :
       (Done(r) /\ req[r].kind = "create" /\ req[r].pid # 0
          /\ hist[req[r].pid].broke)
         => /\ req[r].status = 500
            /\ req[r].pid \in DOMAIN persons
            /\ persons[req[r].pid].user_id = req[r].user
  /\ \A p \in DOMAIN persons :
       (hist[p].broke /\ Quiescent /\ persons[p].total_quantity.t = "num")
         => persons[p].total_quantity.n <= SumDetailEntries(DetailsOf(p))

\* slot r takes this step: it starts a request or moves on in its handler
Stepped(r) == req'[r].n # req[r].n \/ req'[r].pc # req[r].pc
\* the Details that this step creates or changes
Touched ==
  {d \in DOMAIN details' : d \notin DOMAIN details \/ details'[d] # details[d]}

\* what a step of an add-entry request on Person p for day may change
AddFrame(p, day) ==
  /\ DOMAIN persons' = DOMAIN persons
  /\ \A q \in DOMAIN persons :
       IF q = p
       THEN persons'[q] =
              [persons[q] EXCEPT !.total_quantity = persons'[q].total_quantity]
       ELSE persons'[q] = persons[q]
  /\ DOMAIN details \subseteq DOMAIN details'
  /\ Cardinality(Touched) <= 1
  /\ \A d \in Touched :
       /\ details'[d].parent = p /\ details'[d].selected_date = day
       /\ d \in DOMAIN details =>
            /\ details[d].parent = p /\ details[d].selected_date = day

\* C19: every step of an add-entry request on Person p changes, among the
\* Person documents, nothing but p's total_quantity, and among the Details
\* creates or changes at most the one Detail of p for the request's
\* normalized date; and no step of any request changes the user_id of a
\* Person.
C19_AddEntryFrame ==
  [][/\ \A q \in DOMAIN persons \cap DOMAIN persons' :
          persons'[q].user_id = persons[q].user_id
     /\ \A r \in Slots :
          (Stepped(r) /\ req'[r].kind = "add")
            => AddFrame(req'[r].id,
                        normalizeDate(req'[r].body.selected_date))]_vars

C19_Witness ==
  \E r \in Slots, q \in DOMAIN persons :
    /\ AddOk(r) /\ req[r].id \in DOMAIN persons /\ q # req[r].id
    /\ persons[req[r].id].total_quantity = req[r].out
    /\ req[r].out # N(SumNums(Entries(r)))
    /\ persons[req[r].id].item # req[r].body.item
    /\ persons[req[r].id].modified_at = persons[req[r].id].created_at
    /\ req[r].target \in DetailsOf(req[r].id)

\* page is the first page of size k of the Details of Person p: the k
\* Details (or all, when fewer) that come first in the order of the query
FirstPage(page, p, k) ==
  LET ids == PageIds(page)
      all == DetailsOf(p)
  IN /\ Range(ids) \subseteq all
     /\ Len(ids) = (IF Cardinality(all) < k THEN Cardinality(all) ELSE k)
     /\ \A i, j \in 1..Len(ids) :
          i < j => Before(ids[i], details[ids[j]].selected_date, ids[j])
     /\ \A d \in all \ Range(ids), e \in Range(ids) :
          Before(e, details[d].selected_date, d)
     /\ \A i \in 1..Len(ids) : page[i].doc = details[ids[i]]

\* an answered details request of the owner whose cursor names no Detail of
\* the Person
CursorMiss(r) ==
  /\ Done(r) /\ req[r].kind = "list" /\ req[r].seen = "own"
  /\ req[r].query.lastVisibleDate # NoCursor
  /\ req[r].query.lastVisibleDate \notin DetailsOf(req[r].id)

\* C20: a details request by the owner whose cursor names no existing Detail
\* of the Person is answered with success and with the first page of its
\* pageSize, which is not empty when the Person has Details.
C20_UnknownCursorIgnored ==
  \A r \in Slots :
    CursorMiss(r) =>
      /\ req[r].status = 200
      /\ FirstPage(req[r].page, req[r].id, req[r].query.pageSize)
      /\ DetailsOf(req[r].id) # {} => req[r].page # <<>>

C20_Witness ==
  \E r \in Slots :
    /\ CursorMiss(r)
    /\ req[r].query.lastVisibleDate \in DOMAIN details
    /\ req[r].query.pageSize = 1
    /\ Cardinality(DetailsOf(req[r].id)) = 2
    /\ Len(req[r].page) = 1

====
